---- MODULE Spec2Model ----
(***************************************************************************)
(* Username fuzzing of OSRFramework (osrframework/utils/fuzz.py) and the   *)
(* search of usufy (osrframework/usufy.py: process_nick_list, main).       *)
(*                                                                         *)
(* A Python str is modelled as a sequence of code points, each code point  *)
(* being a one-element TLA+ string ("a", "_", ...).  Two code points have  *)
(* symbolic names: "I_DOT" is U+0130 (capital I with dot above) and        *)
(* "COMB_DOT" is U+0307 (combining dot above); str.lower() maps the first  *)
(* to the two code points "i" "COMB_DOT".                                  *)
(***************************************************************************)
EXTENDS Integers, Sequences, FiniteSets, TLC

VARIABLES
    \* SpecStr: one generator call
    s,               \* the argument of the generators
    strpc,           \* "start", "case" (case variations made), "leet"
    caseOut,         \* value returned by generate_case_variations
    leetOut,         \* value returned by generate_leet_variations
    \* SpecLoad: one call of load_custom_patterns
    loadFile,        \* the file at the path given
    loadpc,          \* "start", "done"
    loadOut,         \* value returned by load_custom_patterns
    \* Spec: calls of fuzz_usernames
    hashseed,        \* hash seed of the interpreter run
    pc,              \* "idle", "called", "loop", "done"
    callno,          \* 1: first call, 2: the same call made again
    nicks,           \* argument nicks
    config_path,     \* argument config_path
    now,             \* dt.datetime.now().year read by the call
    file,            \* what open(config_path) found
    custom_patterns, \* local custom_patterns
    idx,             \* number of nicks the loop has processed
    results,         \* local results (dict, in insertion order)
    raised,          \* whether an exception left the call
    first,           \* value returned by the first call
    seen,            \* local seen of the loop body
    variations,      \* local variations of the loop body
    loads,           \* calls of load_custom_patterns made by the call
    clock,           \* the year dt.datetime.now() would give
    \* SpecConc: two calls of fuzz_usernames in two threads
    calls,           \* for each thread the locals of its call
    \* SpecPnl: one call of usufy.process_nick_list
    pnlpc,           \* "idle", "submit", "collect", "raising", "returned", "raised"
    pnl_nicks,       \* argument nicks
    platforms,       \* argument platforms
    nThreads,        \* argument nThreads
    futures,         \* the futures submitted to the pool, in submission order
    pnl_results,     \* local results
    \* SpecMain: one run of usufy.main
    mainpc,          \* "start", "searching", "returned", "raised"
    args,            \* the parsed arguments
    mainRet          \* what main returned

strvars == <<s, strpc, caseOut, leetOut>>
loadvars == <<loadFile, loadpc, loadOut>>
fuzzvars == <<hashseed, pc, callno, nicks, config_path, now, file,
              custom_patterns, idx, results, raised, first,
              seen, variations, loads, clock>>
concvars == <<calls>>
pnlvars == <<pnlpc, pnl_nicks, platforms, nThreads, futures, pnl_results>>
mainvars == <<mainpc, args, mainRet>>
vars == <<s, strpc, caseOut, leetOut, loadFile, loadpc, loadOut,
          hashseed, pc, callno, nicks, config_path, now, file,
          custom_patterns, idx, results, raised, first,
          seen, variations, loads, clock, calls,
          pnlpc, pnl_nicks, platforms, nThreads, futures, pnl_results,
          mainpc, args, mainRet>>

(***************************************************************************)
(* Bounds of the model.                                                    *)
(***************************************************************************)
MaxThreads == 2

MaxLen == 3
MaxNicks == 2
MaxFileLines == 2
NumSeeds == 2

(***************************************************************************)
(* Code points and the str methods the module calls.                       *)
(***************************************************************************)
Lower26 == <<"a","b","c","d","e","f","g","h","i","j","k","l","m",
             "n","o","p","q","r","s","t","u","v","w","x","y","z">>
Upper26 == <<"A","B","C","D","E","F","G","H","I","J","K","L","M",
             "N","O","P","Q","R","S","T","U","V","W","X","Y","Z">>

IndexIn(c, seq) ==
    IF \E i \in 1..Len(seq) : seq[i] = c
    THEN CHOOSE i \in 1..Len(seq) : seq[i] = c
    ELSE 0

Whitespace == {" ", "\t", "\n"}

\* Unicode property Cased of a code point
IsCased(c) == IndexIn(c, Lower26) > 0 \/ IndexIn(c, Upper26) > 0 \/ c = "I_DOT"

\* full lowercase mapping of one code point (a str: U+0130 gives two code points)
lower_char(c) ==
    IF c = "I_DOT" THEN <<"i", "COMB_DOT">>
    ELSE IF IndexIn(c, Upper26) > 0 THEN <<Lower26[IndexIn(c, Upper26)]>>
    ELSE <<c>>

\* full uppercase (and titlecase) mapping of one code point
upper_char(c) ==
    IF IndexIn(c, Lower26) > 0 THEN <<Upper26[IndexIn(c, Lower26)]>>
    ELSE <<c>>

RECURSIVE str_lower(_)
str_lower(str) ==
    IF str = <<>> THEN <<>> ELSE lower_char(Head(str)) \o str_lower(Tail(str))

RECURSIVE str_upper(_)
str_upper(str) ==
    IF str = <<>> THEN <<>> ELSE upper_char(Head(str)) \o str_upper(Tail(str))

\* whether a code point of str.title() is lowercased (TRUE) or titlecased
TitleLowers(previous_is_cased) == previous_is_cased

RECURSIVE title_from(_, _)
title_from(str, previous_is_cased) ==
    IF str = <<>> THEN <<>>
    ELSE (IF TitleLowers(previous_is_cased)
          THEN lower_char(Head(str)) ELSE upper_char(Head(str)))
         \o title_from(Tail(str), IsCased(Head(str)))

str_title(str) == title_from(str, FALSE)

\* str[:n] and str[n:] with Python's clamping of the index
Take(str, n) == SubSeq(str, 1, IF n > Len(str) THEN Len(str) ELSE n)
Drop(str, n) == IF n >= Len(str) THEN <<>> ELSE SubSeq(str, n + 1, Len(str))

\* concatenation of a sequence of sequences
RECURSIVE Flat(_)
Flat(parts) == IF parts = <<>> THEN <<>> ELSE Head(parts) \o Flat(Tail(parts))

SeqRange(seq) == { seq[i] : i \in 1..Len(seq) }

(***************************************************************************)
(* Iteration order of a Python set of str.  It is a function of the set's  *)
(* content and of the hash seed of the interpreter run (PYTHONHASHSEED,    *)
(* random per run by default): the seed picks one permutation.             *)
(***************************************************************************)
AllChars == Lower26 \o Upper26 \o
    <<"0","1","2","3","4","5","6","7","8","9",
      " ", "\t", "\n", "_", ".", "-", "<", ">", "I_DOT", "COMB_DOT">>

RECURSIVE StrLess(_, _)
StrLess(a, b) ==
    IF a = <<>> THEN b # <<>>
    ELSE IF b = <<>> THEN FALSE
    ELSE IF Head(a) = Head(b) THEN StrLess(Tail(a), Tail(b))
    ELSE IndexIn(Head(a), AllChars) < IndexIn(Head(b), AllChars)

RECURSIVE Sorted(_)
Sorted(S) ==
    IF S = {} THEN <<>>
    ELSE LET m == CHOOSE x \in S : \A y \in S \ {x} : StrLess(x, y)
         IN  <<m>> \o Sorted(S \ {m})

RemoveAt(seq, i) == SubSeq(seq, 1, i - 1) \o SubSeq(seq, i + 1, Len(seq))

RECURSIVE NthPerm(_, _)
NthPerm(seq, k) ==
    IF seq = <<>> THEN <<>>
    ELSE LET i == (k % Len(seq)) + 1
         IN  <<seq[i]>> \o NthPerm(RemoveAt(seq, i), k \div Len(seq))

IterOrder(S, seed) == NthPerm(Sorted(S), seed)

(***************************************************************************)
(* fuzz.py: constants and the two variation generators.                    *)
(***************************************************************************)
LEET_MAP == [c \in {"a", "e", "i", "o", "s", "t"} |->
               CASE c = "a" -> "4" [] c = "e" -> "3" [] c = "i" -> "1"
                 [] c = "o" -> "0" [] c = "s" -> "5" [] c = "t" -> "7"]

\* the variant built for index i (1-based) of the lowercased nick
leet_variant(nick, low, i) ==
    Take(nick, i - 1) \o <<LEET_MAP[low[i]]>> \o Drop(nick, i)

\* the set built by the loop of generate_leet_variations
leet_set(nick) ==
    LET low == str_lower(nick)
    IN  { leet_variant(nick, low, i) :
            i \in { j \in 1..Len(low) : low[j] \in DOMAIN LEET_MAP } }

generate_leet_variations(nick, seed) == IterOrder(leet_set(nick), seed)

\* str.capitalize(): first code point titlecased, the rest lowercased
str_capitalize(str) ==
    IF str = <<>> THEN <<>> ELSE upper_char(Head(str)) \o str_lower(Tail(str))

generate_case_variations_capitalize(base) ==
    {str_lower(base), str_upper(base), str_capitalize(base)}

generate_case_variations(base) == {str_lower(base), str_upper(base), str_title(base)}

(***************************************************************************)
(* fuzz.py: load_custom_patterns.  A file is a record: lines (the text of  *)
(* each line without its line end), readable (open() succeeds) and failAt  *)
(* (NoFail, or the number of lines the iteration yields before reading     *)
(* raises, e.g. UnicodeDecodeError in a later buffer of the file).         *)
(***************************************************************************)
TOKEN == <<"<", "U", "S", "E", "R", "N", "A", "M", "E", ">">>

None == "None"
NoFail == -1
Missing == [lines |-> <<>>, readable |-> FALSE, failAt |-> NoFail]

\* sub in str
str_contains(str, sub) ==
    \E i \in 0..(Len(str) - Len(sub)) : SubSeq(str, i + 1, i + Len(sub)) = sub

RECURSIVE lstrip(_)
lstrip(str) ==
    IF str # <<>> /\ Head(str) \in Whitespace THEN lstrip(Tail(str)) ELSE str

RECURSIVE rstrip(_)
rstrip(str) ==
    IF str # <<>> /\ str[Len(str)] \in Whitespace
    THEN rstrip(SubSeq(str, 1, Len(str) - 1)) ELSE str

str_strip(str) == rstrip(lstrip(str))

\* str.replace(old, new) for a non-empty old: left to right, not overlapping
RECURSIVE str_replace(_, _, _)
str_replace(str, old, new) ==
    IF Len(str) < Len(old) THEN str
    ELSE IF SubSeq(str, 1, Len(old)) = old
         THEN new \o str_replace(Drop(str, Len(old)), old, new)
         ELSE <<Head(str)>> \o str_replace(Tail(str), old, new)

\* the test of line 30 on a stripped line
keeps_line(line) == line # <<>> /\ str_contains(line, TOKEN)

\* the loop of lines 28-31 over the lines the iteration yields
RECURSIVE keep_lines(_)
keep_lines(lines) ==
    IF lines = <<>> THEN <<>>
    ELSE LET line == str_strip(Head(lines) \o <<"\n">>)
         IN  (IF keeps_line(line) THEN <<line>> ELSE <<>>) \o keep_lines(Tail(lines))

\* the body of the try block: the patterns list when the block is left and
\* whether it was left by an exception
read_patterns(f) ==
    IF ~f.readable THEN [patterns |-> <<>>, error |-> TRUE]
    ELSE IF f.failAt = NoFail
         THEN [patterns |-> keep_lines(f.lines), error |-> FALSE]
         ELSE [patterns |-> keep_lines(Take(f.lines, f.failAt)), error |-> TRUE]

load_custom_patterns_uncaught(f) ==
    LET r == read_patterns(f)
    IN  [patterns |-> r.patterns, raised |-> r.error]

load_custom_patterns_keep_all(f) ==
    [patterns |-> IF f.readable THEN [i \in 1..Len(f.lines) |-> str_strip(f.lines[i])]
                  ELSE <<>>,
     raised |-> FALSE]

\* load_custom_patterns on a path at which open() finds f (Missing: open raises)
load_custom_patterns(f) ==
    LET r == read_patterns(f)
    IN  [patterns |-> r.patterns, raised |-> FALSE]

(***************************************************************************)
(* fuzz.py: fuzz_usernames.                                                *)
(***************************************************************************)
SEPARATOR_CHARS == << <<>>, <<".">>, <<"_">>, <<"-">> >>
COMMON_WORDS == << <<"d","e","v">>, <<"t","e","s","t">>, <<"a","d","m","i","n">> >>

Digits == <<"0","1","2","3","4","5","6","7","8","9">>

\* str(n) of an int
RECURSIVE str_int(_)
str_int(n) ==
    IF n < 0 THEN <<"-">> \o str_int(-n)
    ELSE IF n < 10 THEN <<Digits[n + 1]>>
    ELSE str_int(n \div 10) \o <<Digits[(n % 10) + 1]>>

\* range(1, 11)
num_range_from_zero == [i \in 1..11 |-> i - 1]

num_range == [i \in 1..10 |-> i]

year_strings_seven(year) == [i \in 1..7 |-> str_int(year - (i - 1))]

\* years: [str(y) for y in range(now, now-6, -1)]
year_strings(year) == [i \in 1..6 |-> str_int(year - (i - 1))]

sep_candidates_words_first(nick, sep, years) ==
    [i \in 1..Len(COMMON_WORDS) |-> nick \o sep \o COMMON_WORDS[i]]
    \o [i \in 1..Len(num_range) |-> nick \o sep \o str_int(num_range[i])]
    \o [i \in 1..Len(years) |-> nick \o sep \o years[i]]

\* the candidates of one separator, in the order of the three inner loops
sep_candidates(nick, sep, years) ==
    [i \in 1..Len(num_range) |-> nick \o sep \o str_int(num_range[i])]
    \o [i \in 1..Len(years) |-> nick \o sep \o years[i]]
    \o [i \in 1..Len(COMMON_WORDS) |-> nick \o sep \o COMMON_WORDS[i]]

suffix_candidates(nick, years) ==
    Flat([k \in 1..Len(SEPARATOR_CHARS) |->
            sep_candidates(nick, SEPARATOR_CHARS[k], years)])

custom_candidate_first_only(pat, nick) ==
    IF str_contains(pat, TOKEN)
    THEN LET i == CHOOSE j \in 0..(Len(pat) - Len(TOKEN)) :
                    /\ SubSeq(pat, j + 1, j + Len(TOKEN)) = TOKEN
                    /\ \A k \in 0..(j - 1) : SubSeq(pat, k + 1, k + Len(TOKEN)) # TOKEN
         IN  Take(pat, i) \o nick \o Drop(pat, i + Len(TOKEN))
    ELSE pat

\* pat.replace('<USERNAME>', nick)
custom_candidate(pat, nick) == str_replace(pat, TOKEN, nick)

custom_candidates(nick, patterns) ==
    [i \in 1..Len(patterns) |-> custom_candidate(patterns[i], nick)]

\* A loop "for candidate in candidates: if candidate not in seen: seen.add(
\* candidate); variations.append(candidate)" started in state st (a record of
\* the set seen and the list variations).  When the i-th candidate is tested,
\* seen holds what it held before the loop and every earlier candidate.
is_new_unchecked(st, candidates, i) == TRUE

\* the test "candidate not in seen" for the i-th candidate
is_new(st, candidates, i) ==
    /\ candidates[i] \notin st.seen
    /\ \A j \in 1..(i - 1) : candidates[j] # candidates[i]

add_all(st, candidates) ==
    LET Appended(i) == is_new(st, candidates, i)
        kept == SelectSeq([i \in 1..Len(candidates) |-> i], Appended)
    IN  [seen |-> st.seen \cup SeqRange(candidates),
         variations |-> st.variations \o [k \in 1..Len(kept) |-> candidates[kept[k]]]]

case_block_with_base(nick, seed) ==
    LET order == IterOrder(generate_case_variations(nick) \ {nick}, seed)
    IN  [seen |-> SeqRange(order) \cup {nick}, variations |-> <<nick>> \o order]

\* lines 77-83: every case variation is added, in the set's iteration order
case_block(nick, seed) ==
    LET order == IterOrder(generate_case_variations(nick), seed)
    IN  [seen |-> SeqRange(order), variations |-> order]

fresh_seen_kept(old) == old

\* line 77: seen = set(), whatever the local seen held before
fresh_seen(old) == {}

\* the body of the loop over nicks, entered with the local seen holding old:
\* the locals seen and variations when line 116 is reached
loop_body(old, nick, years, patterns, seed) ==
    LET cb  == case_block(nick, seed)
        st1 == [seen |-> fresh_seen(old) \cup cb.seen, variations |-> cb.variations]
        st2 == add_all(st1, suffix_candidates(nick, years))
        st3 == add_all(st2, generate_leet_variations(nick, seed))
        st4 == add_all(st3, custom_candidates(nick, patterns))
    IN  st4

\* the list stored in results[nick] by a loop body that is the first of its call
fuzz_nick(nick, years, patterns, seed) ==
    loop_body({}, nick, years, patterns, seed).variations

\* a dict as the sequence of its items in insertion order
dict_keys(d) == [i \in 1..Len(d) |-> d[i].key]

dict_has(d, k) == \E i \in 1..Len(d) : d[i].key = k

dict_get(d, k) == d[CHOOSE i \in 1..Len(d) : d[i].key = k].value

dict_append(d, k, v) == Append(d, [key |-> k, value |-> v])

dict_set_front(d, k, v) ==
    IF dict_has(d, k)
    THEN [i \in 1..Len(d) |-> IF d[i].key = k THEN [key |-> k, value |-> v] ELSE d[i]]
    ELSE <<[key |-> k, value |-> v]>> \o d

\* d[k] = v
dict_set(d, k, v) ==
    IF dict_has(d, k)
    THEN [i \in 1..Len(d) |-> IF d[i].key = k THEN [key |-> k, value |-> v] ELSE d[i]]
    ELSE Append(d, [key |-> k, value |-> v])

fresh_results_kept(old) == old

\* line 69: results = {}, whatever an earlier call left
fresh_results(old) == <<>>

truthy_not_none(path) == path # None

\* bool(config_path)
truthy(path) == path # None /\ path # ""

\* line 74
patterns_for(path, f) ==
    IF truthy(path) THEN load_custom_patterns(f)
    ELSE [patterns |-> <<>>, raised |-> FALSE]

\* the loop of lines 76-116 from the i-th nick on
RECURSIVE fuzz_loop(_, _, _, _, _, _, _)
fuzz_loop(d, old, names, i, years, patterns, seed) ==
    IF i > Len(names) THEN d
    ELSE LET st == loop_body(old, names[i], years, patterns, seed)
         IN  fuzz_loop(dict_set(d, names[i], st.variations), st.seen,
                       names, i + 1, years, patterns, seed)

\* the value fuzz_usernames(names, path) returns in year `year`
fuzz_usernames(names, path, f, year, seed) ==
    fuzz_loop(<<>>, {}, names, 1, year_strings(year),
              patterns_for(path, f).patterns, seed)

(***************************************************************************)
(* Inputs.                                                                 *)
(***************************************************************************)
HashSeeds == 0..(NumSeeds - 1)

\* the years the clock can show; a run starts in the earliest
Years == {2026, 2027}

StartYear == CHOOSE y \in Years : \A z \in Years : y <= z

NickPool == { <<>>, <<"b">>, <<"b", "1">>, <<"a", "B">>, <<"I_DOT", "a">> }

RECURSIVE ListsOfLen(_, _)
ListsOfLen(S, n) ==
    IF n = 0 THEN {<<>>}
    ELSE { Append(p, x) : p \in ListsOfLen(S, n - 1), x \in S }

NickLists == UNION { ListsOfLen(NickPool, n) : n \in 0..MaxNicks }

Paths == {None, "", "patterns.txt", "missing.txt"}

T == TOKEN

LinePool == { <<>>, <<" ", "\t">>, <<"x">>, <<"<", "U", "S", "E", "R", ">">>,
              T \o <<"1">>, <<" ", " ">> \o T \o <<"_">> \o T \o <<" ">>,
              <<"x", " ">> \o T }

FileTexts == { << T \o <<"1">>, T \o <<"1">> >>,
               << <<" ">> \o T \o <<"_">> \o T \o <<" ">>, <<"x">>, T >> }

FilesOf(texts) ==
    { [lines |-> l, readable |-> r, failAt |-> k] :
        l \in texts, r \in BOOLEAN, k \in {NoFail} \cup (0..MaxFileLines) }

ValidFile(f) ==
    /\ f.failAt <= Len(f.lines)
    /\ ~f.readable => (f.failAt = NoFail /\ f.lines = <<>>)

\* the pattern files of the calls of fuzz_usernames: each text read to its
\* end or failing after its first line, and a file that cannot be opened
FuzzFiles ==
    { [lines |-> l, readable |-> TRUE, failAt |-> k] : l \in FileTexts, k \in {NoFail, 1} }
    \cup {Missing}

\* what open() can find at a path
FilesAt(path) == IF path = "patterns.txt" THEN FuzzFiles ELSE {Missing}

StrIdle ==
    /\ s = <<>>
    /\ strpc = "off"
    /\ caseOut = {}
    /\ leetOut = <<>>

LoadIdle ==
    /\ loadFile = Missing
    /\ loadpc = "off"
    /\ loadOut = [patterns |-> <<>>, raised |-> FALSE]

FuzzIdle ==
    /\ hashseed = 0
    /\ pc = "off"
    /\ callno = 0
    /\ nicks = <<>>
    /\ config_path = None
    /\ now = 0
    /\ file = Missing
    /\ custom_patterns = <<>>
    /\ idx = 0
    /\ results = <<>>
    /\ raised = FALSE
    /\ first = <<>>
    /\ seen = {}
    /\ variations = <<>>
    /\ loads = 0
    /\ clock = 0

\* the locals of a call that has not been made
NoCall ==
    [pc |-> "off", nicks |-> <<>>, config_path |-> None, now |-> 0,
     custom_patterns |-> <<>>, idx |-> 0, seen |-> {}, variations |-> <<>>,
     results |-> <<>>]

Threads == {1, 2}

ConcIdle == calls = [p \in Threads |-> NoCall]

\* no call of process_nick_list
PnlIdle ==
    /\ pnlpc = "off"
    /\ pnl_nicks = <<>>
    /\ platforms = <<>>
    /\ nThreads = 0
    /\ futures = <<>>
    /\ pnl_results = <<>>

NoArgs ==
    [fuzz |-> <<>>, fuzz_config |-> None, license |-> FALSE, info |-> None,
     benchmark |-> FALSE, show_tags |-> FALSE, nicks |-> <<>>, as_params |-> FALSE]

NoReturn == [kind |-> "none", mapping |-> <<>>, entities |-> <<>>]

\* no run of usufy.main
MainIdle ==
    /\ mainpc = "off"
    /\ args = NoArgs
    /\ mainRet = NoReturn

(***************************************************************************)
(* Specification SpecStr: the two generators applied to every string of    *)
(* the bounded input set.                                                  *)
(***************************************************************************)
Alphabet == {"a", "b", "e", "s", "t", "A", "B", "E", "T", "1", "_", "'", " ", "I_DOT"}

RECURSIVE StringsOfLen(_)
StringsOfLen(n) ==
    IF n = 0 THEN {<<>>}
    ELSE { Append(p, c) : p \in StringsOfLen(n - 1), c \in Alphabet }

Strings == UNION { StringsOfLen(n) : n \in 0..MaxLen }

ExtraStrings == { <<"t","e","s","t">>, <<"T","e","S","t">>,
                  <<"b","o","b","_","s","m","i","t","h">> }

StrInit ==
    /\ s \in Strings \cup ExtraStrings
    /\ strpc = "start"
    /\ caseOut = {}
    /\ leetOut = <<>>
    /\ LoadIdle
    /\ FuzzIdle
    /\ ConcIdle
    /\ PnlIdle
    /\ MainIdle

CaseVariations ==
    /\ strpc = "start"
    /\ caseOut' = generate_case_variations(s)
    /\ strpc' = "case"
    /\ UNCHANGED <<s, leetOut>>
    /\ UNCHANGED <<loadvars, fuzzvars, concvars, pnlvars, mainvars>>

LeetVariations ==
    /\ strpc = "case"
    /\ \E seed \in HashSeeds : leetOut' = generate_leet_variations(s, seed)
    /\ strpc' = "leet"
    /\ UNCHANGED <<s, caseOut>>
    /\ UNCHANGED <<loadvars, fuzzvars, concvars, pnlvars, mainvars>>

StrNext == CaseVariations \/ LeetVariations

SpecStr == StrInit /\ [][StrNext]_vars

(***************************************************************************)
(* Specification SpecLoad: load_custom_patterns applied to every file of   *)
(* the bounded input set.                                                  *)
(***************************************************************************)
LoadFiles ==
    { f \in FilesOf(UNION { ListsOfLen(LinePool, n) : n \in 0..MaxFileLines }) :
        ValidFile(f) }

LoadInit ==
    /\ loadFile \in LoadFiles
    /\ loadpc = "start"
    /\ loadOut = [patterns |-> <<>>, raised |-> FALSE]
    /\ StrIdle
    /\ FuzzIdle
    /\ ConcIdle
    /\ PnlIdle
    /\ MainIdle

Load ==
    /\ loadpc = "start"
    /\ loadOut' = load_custom_patterns(loadFile)
    /\ loadpc' = "done"
    /\ UNCHANGED <<loadFile, strvars, fuzzvars, concvars, pnlvars, mainvars>>

LoadNext == Load

SpecLoad == LoadInit /\ [][LoadNext]_vars

(***************************************************************************)
(* Specification Spec: one call of fuzz_usernames.  Specification         *)
(* SpecTwice: the call is then made once more with the same arguments,     *)
(* pattern file and year, in the same interpreter run or in a new one.     *)
(***************************************************************************)
Init ==
    /\ hashseed \in HashSeeds
    /\ pc = "idle"
    /\ callno = 0
    /\ nicks = <<>>
    /\ config_path = None
    /\ now = 0
    /\ file = Missing
    /\ custom_patterns = <<>>
    /\ idx = 0
    /\ results = <<>>
    /\ raised = FALSE
    /\ first = <<>>
    /\ seen = {}
    /\ variations = <<>>
    /\ loads = 0
    /\ clock = StartYear
    /\ StrIdle
    /\ LoadIdle
    /\ ConcIdle
    /\ PnlIdle
    /\ MainIdle

\* lines 69-71: the call starts
CallOn(lists, paths) ==
    /\ pc = "idle"
    /\ \E n \in lists, p \in paths :
        /\ nicks' = n
        /\ config_path' = p
    /\ now' = clock
    /\ callno' = 1
    /\ results' = fresh_results(results)
    /\ idx' = 0
    /\ seen' = {}
    /\ variations' = <<>>
    /\ loads' = 0
    /\ pc' = "called"
    /\ UNCHANGED <<hashseed, file, custom_patterns, raised, first, clock>>
    /\ UNCHANGED <<strvars, loadvars, concvars, pnlvars, mainvars>>

Call == CallOn(NickLists, Paths)

\* line 74, config_path given
LoadPatterns ==
    /\ pc = "called"
    /\ truthy(config_path)
    /\ \E f \in (IF callno = 1 THEN FilesAt(config_path) ELSE {file}) :
        LET r == load_custom_patterns(f)
        IN  /\ file' = f
            /\ custom_patterns' = r.patterns
            /\ raised' = r.raised
            /\ pc' = IF r.raised THEN "done" ELSE "loop"
    /\ loads' = loads + 1
    /\ UNCHANGED <<hashseed, callno, nicks, config_path, now, idx, results, first,
                   seen, variations, clock>>
    /\ UNCHANGED <<strvars, loadvars, concvars, pnlvars, mainvars>>

\* line 74, config_path None or empty
SkipLoad ==
    /\ pc = "called"
    /\ ~truthy(config_path)
    /\ custom_patterns' = <<>>
    /\ pc' = "loop"
    /\ UNCHANGED <<hashseed, callno, nicks, config_path, now, file, idx, results,
                   raised, first, seen, variations, loads, clock>>
    /\ UNCHANGED <<strvars, loadvars, concvars, pnlvars, mainvars>>

\* lines 76-116: one iteration of the loop over nicks
ProcessNick ==
    /\ pc = "loop"
    /\ idx < Len(nicks)
    /\ LET st == loop_body(seen, nicks[idx + 1], year_strings(now),
                           custom_patterns, hashseed)
       IN  /\ seen' = st.seen
           /\ variations' = st.variations
           /\ results' = dict_set(results, nicks[idx + 1], st.variations)
    /\ idx' = idx + 1
    /\ UNCHANGED <<hashseed, pc, callno, nicks, config_path, now, file,
                   custom_patterns, raised, first, loads, clock>>
    /\ UNCHANGED <<strvars, loadvars, concvars, pnlvars, mainvars>>

\* line 117
Return ==
    /\ pc = "loop"
    /\ idx = Len(nicks)
    /\ pc' = "done"
    /\ UNCHANGED <<hashseed, callno, nicks, config_path, now, file,
                   custom_patterns, idx, results, raised, first,
                   seen, variations, loads, clock>>
    /\ UNCHANGED <<strvars, loadvars, concvars, pnlvars, mainvars>>

\* the same call is made again in the same interpreter run
CallAgain ==
    /\ pc = "done"
    /\ callno = 1
    /\ first' = results
    /\ callno' = 2
    /\ results' = fresh_results(results)
    /\ idx' = 0
    /\ seen' = {}
    /\ variations' = <<>>
    /\ loads' = 0
    /\ pc' = "called"
    /\ UNCHANGED <<hashseed, nicks, config_path, now, file, custom_patterns, raised,
                   clock>>
    /\ UNCHANGED <<strvars, loadvars, concvars, pnlvars, mainvars>>

\* the program is run again and makes the same call
RunAgain ==
    /\ pc = "done"
    /\ callno = 1
    /\ hashseed' \in HashSeeds
    /\ first' = results
    /\ callno' = 2
    /\ results' = fresh_results(results)
    /\ idx' = 0
    /\ seen' = {}
    /\ variations' = <<>>
    /\ loads' = 0
    /\ pc' = "called"
    /\ UNCHANGED <<nicks, config_path, now, file, custom_patterns, raised, clock>>
    /\ UNCHANGED <<strvars, loadvars, concvars, pnlvars, mainvars>>

Next ==
    \/ Call
    \/ LoadPatterns
    \/ SkipLoad
    \/ ProcessNick
    \/ Return

Spec == Init /\ [][Next]_vars

\* the calendar year changes, before, during or after the call
Tick ==
    /\ clock + 1 \in Years
    /\ clock' = clock + 1
    /\ UNCHANGED <<hashseed, pc, callno, nicks, config_path, now, file,
                   custom_patterns, idx, results, raised, first,
                   seen, variations, loads>>
    /\ UNCHANGED <<strvars, loadvars, concvars, pnlvars, mainvars>>

\* the calls made while the clock is watched
ClockLists == UNION { ListsOfLen({ <<"b">>, <<"a", "B">> }, n) : n \in 0..MaxNicks }

ClockCall == CallOn(ClockLists, {None, "patterns.txt"})

ClockNext ==
    \/ ClockCall
    \/ LoadPatterns
    \/ SkipLoad
    \/ ProcessNick
    \/ Return
    \/ Tick

\* calls of fuzz_usernames while the calendar year can change
SpecClock == Init /\ [][ClockNext]_vars

\* two calls in a row in the same run, each with its own arguments
SeqLists == { <<>>, << <<"b">> >>, << <<"b", "1">>, <<"b">> >>, << <<"a", "B">> >> }

SeqPaths == {None, "patterns.txt"}

SeqCall == CallOn(SeqLists, SeqPaths)

\* the first call has returned and its caller makes another call
NextCall ==
    /\ pc = "done"
    /\ callno = 1
    /\ first' = results
    /\ callno' = 2
    /\ \E n \in SeqLists, p \in SeqPaths :
        /\ nicks' = n
        /\ config_path' = p
    /\ now' = clock
    /\ results' = fresh_results(results)
    /\ idx' = 0
    /\ seen' = {}
    /\ variations' = <<>>
    /\ loads' = 0
    /\ pc' = "called"
    /\ UNCHANGED <<hashseed, file, custom_patterns, raised, clock>>
    /\ UNCHANGED <<strvars, loadvars, concvars, pnlvars, mainvars>>

SeqNext ==
    \/ SeqCall
    \/ LoadPatterns
    \/ SkipLoad
    \/ ProcessNick
    \/ Return
    \/ NextCall

SpecSeq == Init /\ [][SeqNext]_vars

(***************************************************************************)
(* Specification SpecConc: two threads each make one call of               *)
(* fuzz_usernames, on nick lists without a common nick; the steps of the   *)
(* two calls interleave in every order.  A step is the entry, the loading  *)
(* of the patterns, one family of one loop iteration, the assignment to    *)
(* results, or the return.                                                 *)
(***************************************************************************)
ConcLists == { <<>>, << <<>> >>, << <<"_">> >>, << <<"b">>, <<"_">> >> }

\* the pattern file both calls find
ConcFile == [lines |-> << <<" ">> \o T \o <<"_">> \o T \o <<" ">>, <<"x">>, T >>,
             readable |-> TRUE, failAt |-> NoFail]

ConcInit ==
    /\ hashseed \in HashSeeds
    /\ file = ConcFile
    /\ clock = StartYear
    /\ calls = [t \in Threads |-> [NoCall EXCEPT !.pc = "idle"]]
    /\ pc = "off"
    /\ callno = 0
    /\ nicks = <<>>
    /\ config_path = None
    /\ now = 0
    /\ custom_patterns = <<>>
    /\ idx = 0
    /\ results = <<>>
    /\ raised = FALSE
    /\ first = <<>>
    /\ seen = {}
    /\ variations = <<>>
    /\ loads = 0
    /\ StrIdle
    /\ LoadIdle
    /\ PnlIdle
    /\ MainIdle

seen_of_any(cs, t) == UNION { cs[u].seen : u \in Threads }

\* the set the name seen denotes in the call of thread t: a local of that call
seen_of(cs, t) == cs[t].seen

\* lines 69-71
ConcCall(t) ==
    /\ calls[t].pc = "idle"
    /\ \E n \in ConcLists, p \in SeqPaths :
        /\ \A u \in Threads \ {t} : SeqRange(n) \cap SeqRange(calls[u].nicks) = {}
        /\ calls' = [calls EXCEPT ![t] =
                        [NoCall EXCEPT !.pc = "called", !.nicks = n, !.config_path = p,
                                       !.now = clock,
                                       !.results = fresh_results(calls[t].results)]]
    /\ UNCHANGED <<strvars, loadvars, fuzzvars, pnlvars, mainvars>>

\* line 74
ConcLoadPatterns(t) ==
    /\ calls[t].pc = "called"
    /\ calls' = [calls EXCEPT
                    ![t].custom_patterns = patterns_for(calls[t].config_path, file).patterns,
                    ![t].pc = "loop"]
    /\ UNCHANGED <<strvars, loadvars, fuzzvars, pnlvars, mainvars>>

\* lines 76-83: the next nick, its new seen and variations, its case variants
ConcCase(t) ==
    /\ calls[t].pc = "loop"
    /\ calls[t].idx < Len(calls[t].nicks)
    /\ LET cb == case_block(calls[t].nicks[calls[t].idx + 1], hashseed)
       IN  calls' = [calls EXCEPT
                       ![t].seen = fresh_seen(calls[t].seen) \cup cb.seen,
                       ![t].variations = cb.variations,
                       ![t].pc = "suffix"]
    /\ UNCHANGED <<strvars, loadvars, fuzzvars, pnlvars, mainvars>>

\* a loop "if candidate not in seen: seen.add(...); variations.append(...)"
\* of thread t over candidates
ConcAdd(t, candidates, nextpc) ==
    LET st == add_all([seen |-> seen_of(calls, t), variations |-> calls[t].variations],
                      candidates)
    IN  calls' = [calls EXCEPT ![t].seen = st.seen,
                               ![t].variations = st.variations,
                               ![t].pc = nextpc]

\* lines 86-101
ConcSuffix(t) ==
    /\ calls[t].pc = "suffix"
    /\ ConcAdd(t, suffix_candidates(calls[t].nicks[calls[t].idx + 1],
                                    year_strings(calls[t].now)), "leet")
    /\ UNCHANGED <<strvars, loadvars, fuzzvars, pnlvars, mainvars>>

\* lines 104-107
ConcLeet(t) ==
    /\ calls[t].pc = "leet"
    /\ ConcAdd(t, generate_leet_variations(calls[t].nicks[calls[t].idx + 1], hashseed),
               "custom")
    /\ UNCHANGED <<strvars, loadvars, fuzzvars, pnlvars, mainvars>>

\* lines 110-114
ConcCustom(t) ==
    /\ calls[t].pc = "custom"
    /\ ConcAdd(t, custom_candidates(calls[t].nicks[calls[t].idx + 1],
                                    calls[t].custom_patterns), "store")
    /\ UNCHANGED <<strvars, loadvars, fuzzvars, pnlvars, mainvars>>

\* line 116
ConcStore(t) ==
    /\ calls[t].pc = "store"
    /\ calls' = [calls EXCEPT
                    ![t].results = dict_set(calls[t].results,
                                            calls[t].nicks[calls[t].idx + 1],
                                            calls[t].variations),
                    ![t].idx = calls[t].idx + 1,
                    ![t].pc = "loop"]
    /\ UNCHANGED <<strvars, loadvars, fuzzvars, pnlvars, mainvars>>

\* line 117
ConcReturn(t) ==
    /\ calls[t].pc = "loop"
    /\ calls[t].idx = Len(calls[t].nicks)
    /\ calls' = [calls EXCEPT ![t].pc = "done"]
    /\ UNCHANGED <<strvars, loadvars, fuzzvars, pnlvars, mainvars>>

ConcNext ==
    \E t \in Threads :
        \/ ConcCall(t)
        \/ ConcLoadPatterns(t)
        \/ ConcCase(t)
        \/ ConcSuffix(t)
        \/ ConcLeet(t)
        \/ ConcCustom(t)
        \/ ConcStore(t)
        \/ ConcReturn(t)

SpecConc == ConcInit /\ [][ConcNext]_vars

TwiceNext ==
    \/ Call
    \/ LoadPatterns
    \/ SkipLoad
    \/ ProcessNick
    \/ Return
    \/ CallAgain
    \/ RunAgain

SpecTwice == Init /\ [][TwiceNext]_vars

(***************************************************************************)
(* usufy.process_nick_list (osrframework/usufy.py).                        *)
(*                                                                         *)
(* A platform object is a record of the attributes check() looks at:       *)
(* has_url / url_usufy: platform.url is a non-empty dict / its "usufy"     *)
(* entry (<<>> when the key is absent); has_modes / modes_url /            *)
(* modes_clues: platform.modes is a non-empty dict / the "url" and         *)
(* "not_found_text" entries of modes["usufy"]; has_notFoundText /          *)
(* notFoundText: the attribute exists / its "usufy" entry.                 *)
(* A response is what requests.head() does: it raises, or it returns a     *)
(* status code and a text.                                                 *)
(***************************************************************************)
USUFY_TAG == <<"<", "u", "s", "u", "f", "y", ">">>

PLACEHOLDER == <<"{", "p", "l", "a", "c", "e", "h", "o", "l", "d", "e", "r", "}">>

\* url_template.format(placeholder=nick), for templates without "{{", "}}",
\* conversions and format specs: every {placeholder} is replaced; any other
\* brace makes format() raise
format_raises(template) ==
    LET rest == str_replace(template, PLACEHOLDER, <<>>)
    IN  \E i \in 1..Len(rest) : rest[i] \in {"{", "}"}

str_format(template, nick) == str_replace(template, PLACEHOLDER, nick)

\* lines 121-126
url_template_of(platform) ==
    IF platform.has_url THEN platform.url_usufy
    ELSE IF platform.has_modes THEN platform.modes_url
    ELSE <<>>

\* whether line 125 has bound mode_conf
mode_conf_bound(platform) == ~platform.has_url /\ platform.has_modes

\* lines 132-135 (when they do not raise)
build_url(template, nick) ==
    IF str_contains(template, USUFY_TAG)
    THEN str_replace(template, USUFY_TAG, nick)
    ELSE str_format(template, nick)

\* lines 138-160: the value of exists after the try statement.  An exception
\* of requests.head, or the NameError of line 148 when mode_conf is not bound,
\* ends in the handler, which sets exists to False.
exists_after_try(platform, resp) ==
    IF resp.raises THEN FALSE
    ELSE LET page_text == IF resp.status_code = 200 THEN resp.text ELSE <<>>
         IN  IF resp.status_code < 400
             THEN IF platform.has_notFoundText
                  THEN ~\E i \in 1..Len(platform.notFoundText) :
                            str_contains(page_text, platform.notFoundText[i])
                  ELSE IF platform.has_modes
                  THEN IF mode_conf_bound(platform)
                       THEN ~\E i \in 1..Len(platform.modes_clues) :
                                 str_contains(page_text, platform.modes_clues[i])
                       ELSE FALSE
                  ELSE TRUE
             ELSE FALSE

NoResult == [kind |-> "None", value |-> <<>>, platform |-> "", uri |-> <<>>]

Raised(exc) == [kind |-> exc, value |-> <<>>, platform |-> "", uri |-> <<>>]

\* the i3visio entity of lines 167-182
Entity(nick, name, url) ==
    [kind |-> "com.i3visio.Alias", value |-> nick, platform |-> name, uri |-> url]

check_guarded_all(platform, nick, resp) ==
    IF url_template_of(platform) = <<>> THEN NoResult
    ELSE IF ~str_contains(url_template_of(platform), USUFY_TAG)
            /\ format_raises(url_template_of(platform))
    THEN NoResult
    ELSE IF exists_after_try(platform, resp)
    THEN Entity(nick, platform.platformName, build_url(url_template_of(platform), nick))
    ELSE NoResult

\* lines 117-182: what check(platform, nick) returns or raises when
\* requests.head answers resp
check(platform, nick, resp) ==
    IF url_template_of(platform) = <<>> THEN Raised("ValueError")
    ELSE IF ~str_contains(url_template_of(platform), USUFY_TAG)
            /\ format_raises(url_template_of(platform))
    THEN Raised("KeyError")
    ELSE IF exists_after_try(platform, resp)
    THEN Entity(nick, platform.platformName, build_url(url_template_of(platform), nick))
    ELSE NoResult

isException(r) == r.kind \in {"ValueError", "KeyError"}

\* whether check(platform, nick) gets as far as line 139
reaches_request(platform) ==
    /\ url_template_of(platform) # <<>>
    /\ str_contains(url_template_of(platform), USUFY_TAG)
           \/ ~format_raises(url_template_of(platform))

append_result_always(results_, res_) == Append(results_, res_)

\* lines 189-190: if res: results.append(res)
append_result(results_, res_) ==
    IF res_.kind = "None" THEN results_ ELSE Append(results_, res_)

\* the platform objects of the model
PlatformPool ==
    LET none == [platformName |-> "", has_url |-> FALSE, url_usufy |-> <<>>,
                 has_modes |-> FALSE, modes_url |-> <<>>, modes_clues |-> <<>>,
                 has_notFoundText |-> FALSE, notFoundText |-> <<>>]
        no   == <<"n", "o">>
    IN  [ A |-> [none EXCEPT !.platformName = "A", !.has_url = TRUE,
                             !.url_usufy = <<"a", "/">> \o USUFY_TAG,
                             !.has_notFoundText = TRUE, !.notFoundText = <<no>>],
          B |-> [none EXCEPT !.platformName = "B", !.has_modes = TRUE,
                             !.modes_url = <<"b", "/">> \o PLACEHOLDER,
                             !.modes_clues = <<no>>],
          C |-> [none EXCEPT !.platformName = "C", !.has_url = TRUE],
          D |-> [none EXCEPT !.platformName = "D", !.has_url = TRUE,
                             !.url_usufy = <<"d", "/">> \o USUFY_TAG,
                             !.has_modes = TRUE, !.modes_url = <<"d">>],
          E |-> [none EXCEPT !.platformName = "E", !.has_url = TRUE,
                             !.url_usufy = <<"e", "/", "{", "i", "d", "}">>] ]

PlatformLists ==
    { <<>>, <<PlatformPool.A>>, <<PlatformPool.A, PlatformPool.B>>,
      <<PlatformPool.B, PlatformPool.C>>, <<PlatformPool.D, PlatformPool.A>>,
      <<PlatformPool.E>> }

PnlNickLists == { <<>>, << <<"b">> >>, << <<"b">>, <<"a", "B">> >>, << <<"b">>, <<"b">> >> }

\* what requests.head(url, ...) can do
Responses ==
    { [raises |-> TRUE, status_code |-> 0, text |-> <<>>],
      [raises |-> FALSE, status_code |-> 200, text |-> <<>>],
      [raises |-> FALSE, status_code |-> 200, text |-> <<"n", "o">>],
      [raises |-> FALSE, status_code |-> 404, text |-> <<>>] }

NoResponse == [raises |-> FALSE, status_code |-> 0, text |-> <<>>]

ThreadCounts == 1..MaxThreads

\* the call process_nick_list(nicks, platforms, ..., nThreads=n); lines 184-185
PnlCallOn(nlists, plists) ==
    /\ pnlpc = "idle"
    /\ \E n \in nlists, p \in plists, w \in ThreadCounts :
        /\ pnl_nicks' = n
        /\ platforms' = p
        /\ nThreads' = w
    /\ futures' = <<>>
    /\ pnl_results' = <<>>
    /\ pnlpc' = "submit"

\* line 186: the next pool.submit(check, p, n) of "for p in platforms for n
\* in nicks"
Submit ==
    /\ pnlpc = "submit"
    /\ Len(futures) < Len(platforms) * Len(pnl_nicks)
    /\ LET k == Len(futures)
       IN  futures' = Append(futures,
                [platform |-> platforms[(k \div Len(pnl_nicks)) + 1],
                 nick |-> pnl_nicks[(k % Len(pnl_nicks)) + 1],
                 state |-> "pending", resp |-> NoResponse, result |-> NoResult])
    /\ UNCHANGED <<pnlpc, pnl_nicks, platforms, nThreads, pnl_results>>
    /\ UNCHANGED <<strvars, loadvars, fuzzvars, concvars, mainvars>>

\* line 187: every pair is submitted, the as_completed loop starts
AllSubmitted ==
    /\ pnlpc = "submit"
    /\ Len(futures) = Len(platforms) * Len(pnl_nicks)
    /\ pnlpc' = "collect"
    /\ UNCHANGED <<pnl_nicks, platforms, nThreads, futures, pnl_results>>
    /\ UNCHANGED <<strvars, loadvars, fuzzvars, concvars, mainvars>>

Running == { k \in 1..Len(futures) : futures[k].state = "running" }

\* a worker thread of the pool takes the oldest queued call; the pool has
\* at most nThreads workers
WorkerStart(k) ==
    /\ pnlpc \in {"submit", "collect", "raising"}
    /\ futures[k].state = "pending"
    /\ \A j \in 1..(k - 1) : futures[j].state # "pending"
    /\ Cardinality(Running) < nThreads
    /\ futures' = [futures EXCEPT ![k].state = "running"]
    /\ UNCHANGED <<pnlpc, pnl_nicks, platforms, nThreads, pnl_results>>
    /\ UNCHANGED <<strvars, loadvars, fuzzvars, concvars, mainvars>>

\* the worker finishes check(platform, nick): the future holds what it
\* returned or raised
WorkerFinish(k) ==
    /\ futures[k].state = "running"
    /\ \E resp \in Responses :
        futures' = [futures EXCEPT
                       ![k].state = "done",
                       ![k].resp = IF reaches_request(futures[k].platform)
                                   THEN resp ELSE NoResponse,
                       ![k].result = check(futures[k].platform, futures[k].nick, resp)]
    /\ UNCHANGED <<pnlpc, pnl_nicks, platforms, nThreads, pnl_results>>
    /\ UNCHANGED <<strvars, loadvars, fuzzvars, concvars, mainvars>>

\* lines 187-190: as_completed yields a finished future; f.result() returns
\* the value of check or raises its exception, which leaves the loop
Collect(k) ==
    /\ pnlpc = "collect"
    /\ futures[k].state = "done"
    /\ futures' = [futures EXCEPT ![k].state = "collected"]
    /\ IF isException(futures[k].result)
       THEN /\ pnlpc' = "raising"
            /\ UNCHANGED pnl_results
       ELSE /\ pnl_results' = append_result(pnl_results, futures[k].result)
            /\ UNCHANGED pnlpc
    /\ UNCHANGED <<pnl_nicks, platforms, nThreads>>
    /\ UNCHANGED <<strvars, loadvars, fuzzvars, concvars, mainvars>>

\* line 192, after the with block shut the pool down
PnlReturn ==
    /\ pnlpc = "collect"
    /\ \A k \in 1..Len(futures) : futures[k].state = "collected"
    /\ pnlpc' = "returned"
    /\ UNCHANGED <<pnl_nicks, platforms, nThreads, futures, pnl_results>>
    /\ UNCHANGED <<strvars, loadvars, fuzzvars, concvars, mainvars>>

\* the exception of f.result() leaves the with block, whose exit waits for
\* every submitted call to finish, and then leaves process_nick_list
PnlRaise ==
    /\ pnlpc = "raising"
    /\ \A k \in 1..Len(futures) : futures[k].state \in {"done", "collected"}
    /\ pnlpc' = "raised"
    /\ UNCHANGED <<pnl_nicks, platforms, nThreads, futures, pnl_results>>
    /\ UNCHANGED <<strvars, loadvars, fuzzvars, concvars, mainvars>>



(***************************************************************************)
(* Specification SpecPnl: one call of process_nick_list.                   *)
(***************************************************************************)
PnlInit ==
    /\ pnlpc = "idle"
    /\ pnl_nicks = <<>>
    /\ platforms = <<>>
    /\ nThreads = 0
    /\ futures = <<>>
    /\ pnl_results = <<>>
    /\ StrIdle
    /\ LoadIdle
    /\ FuzzIdle
    /\ ConcIdle
    /\ MainIdle

PnlCall ==
    /\ PnlCallOn(PnlNickLists, PlatformLists)
    /\ UNCHANGED <<strvars, loadvars, fuzzvars, concvars, mainvars>>

PnlNext ==
    \/ PnlCall
    \/ Submit
    \/ AllSubmitted
    \/ \E k \in 1..Len(futures) : WorkerStart(k)
    \/ \E k \in 1..Len(futures) : WorkerFinish(k)
    \/ \E k \in 1..Len(futures) : Collect(k)
    \/ PnlReturn
    \/ PnlRaise

SpecPnl == PnlInit /\ [][PnlNext]_vars

(***************************************************************************)
(* Specification SpecMain: one run of usufy.main.  The printing and the    *)
(* export of the results to files are left out, and so is an interrupt     *)
(* from the keyboard; args.nicks stands for the list of line 252.          *)
(***************************************************************************)
MainArgs ==
    { [NoArgs EXCEPT !.nicks = << <<"b">> >>, !.fuzz = << <<"b">> >>],
      [NoArgs EXCEPT !.nicks = << <<"b">> >>, !.fuzz = << <<"a", "B">>, <<"b">> >>,
                     !.fuzz_config = "patterns.txt", !.as_params = TRUE],
      [NoArgs EXCEPT !.license = TRUE],
      [NoArgs EXCEPT !.nicks = << <<"b">> >>, !.info = "list_platforms"],
      [NoArgs EXCEPT !.nicks = << <<"b">> >>, !.info = "list_tags"],
      [NoArgs EXCEPT !.nicks = << <<"b">> >>, !.benchmark = TRUE],
      [NoArgs EXCEPT !.nicks = << <<"b">> >>, !.show_tags = TRUE],
      [NoArgs EXCEPT !.nicks = << <<"b">> >>],
      [NoArgs EXCEPT !.nicks = << <<"b">>, <<"a", "B">> >>, !.as_params = TRUE] }

MainInit ==
    /\ mainpc = "start"
    /\ args \in MainArgs
    /\ mainRet = NoReturn
    /\ hashseed \in HashSeeds
    /\ file = ConcFile
    /\ clock = StartYear
    /\ pc = "off"
    /\ callno = 0
    /\ nicks = <<>>
    /\ config_path = None
    /\ now = 0
    /\ custom_patterns = <<>>
    /\ idx = 0
    /\ results = <<>>
    /\ raised = FALSE
    /\ first = <<>>
    /\ seen = {}
    /\ variations = <<>>
    /\ loads = 0
    /\ StrIdle
    /\ LoadIdle
    /\ ConcIdle
    /\ PnlIdle

\* lines 214-215
MainFuzz ==
    /\ mainpc = "start"
    /\ args.fuzz # <<>>
    /\ mainRet' = [kind |-> "mapping",
                   mapping |-> fuzz_usernames(args.fuzz, args.fuzz_config, file,
                                              clock, hashseed),
                   entities |-> <<>>]
    /\ mainpc' = "returned"
    /\ UNCHANGED <<args, strvars, loadvars, fuzzvars, concvars, pnlvars>>

\* lines 217-219
MainLicense ==
    /\ mainpc = "start"
    /\ args.fuzz = <<>>
    /\ args.license
    /\ mainRet' = NoReturn
    /\ mainpc' = "returned"
    /\ UNCHANGED <<args, strvars, loadvars, fuzzvars, concvars, pnlvars>>

\* lines 229-245
MainInfo ==
    /\ mainpc = "start"
    /\ args.fuzz = <<>>
    /\ ~args.license
    /\ args.info # None \/ args.benchmark \/ args.show_tags
    /\ mainRet' = NoReturn
    /\ mainpc' = "returned"
    /\ UNCHANGED <<args, strvars, loadvars, fuzzvars, concvars, pnlvars>>

\* lines 221-226 and 251-259: the platforms are selected and
\* process_nick_list is called
MainSearch ==
    /\ mainpc = "start"
    /\ args.fuzz = <<>>
    /\ ~args.license
    /\ args.info = None /\ ~args.benchmark /\ ~args.show_tags
    /\ \E lp \in PlatformLists, w \in ThreadCounts :
        /\ platforms' = lp
        /\ nThreads' = w
    /\ pnl_nicks' = args.nicks
    /\ futures' = <<>>
    /\ pnl_results' = <<>>
    /\ pnlpc' = "submit"
    /\ mainpc' = "searching"
    /\ UNCHANGED <<args, mainRet, strvars, loadvars, fuzzvars, concvars>>

\* lines 253 and 297-298: process_nick_list has returned
MainFinish ==
    /\ mainpc = "searching"
    /\ pnlpc = "returned"
    /\ mainRet' = IF args.as_params
                  THEN [kind |-> "entities", mapping |-> <<>>, entities |-> pnl_results]
                  ELSE NoReturn
    /\ mainpc' = "returned"
    /\ UNCHANGED <<args, strvars, loadvars, fuzzvars, concvars, pnlvars>>

\* line 253: the exception of process_nick_list is not caught by main
MainRaise ==
    /\ mainpc = "searching"
    /\ pnlpc = "raised"
    /\ mainpc' = "raised"
    /\ UNCHANGED <<args, mainRet, strvars, loadvars, fuzzvars, concvars, pnlvars>>

MainNext ==
    \/ MainFuzz
    \/ MainLicense
    \/ MainInfo
    \/ MainSearch
    \/ Submit
    \/ AllSubmitted
    \/ \E k \in 1..Len(futures) : WorkerStart(k)
    \/ \E k \in 1..Len(futures) : WorkerFinish(k)
    \/ \E k \in 1..Len(futures) : Collect(k)
    \/ PnlReturn
    \/ PnlRaise
    \/ MainFinish
    \/ MainRaise

SpecMain == MainInit /\ [][MainNext]_vars

(***************************************************************************)
(* Properties of the generators.                                           *)
(***************************************************************************)
IsLetter(c) == IsCased(c)

LowerOf(str) == Flat([i \in 1..Len(str) |-> lower_char(str[i])])
UpperOf(str) == Flat([i \in 1..Len(str) |-> upper_char(str[i])])

\* every cased character that does not directly follow a cased character is
\* capitalized, every one that directly follows a cased character is lowercased
TitleByLetterRuns(str) ==
    Flat([i \in 1..Len(str) |->
            IF i > 1 /\ IsLetter(str[i - 1])
            THEN lower_char(str[i]) ELSE upper_char(str[i])])

\* only the first code point of each whitespace-delimited word is capitalized
TitleByWords(str) ==
    Flat([i \in 1..Len(str) |->
            IF i = 1 \/ str[i - 1] \in Whitespace
            THEN upper_char(str[i]) ELSE lower_char(str[i])])

\* C3 as stated: generate_case_variations(s) is {lowercase(s), uppercase(s),
\* titlecase(s)} with titlecase capitalizing only the first letter of each
\* whitespace-delimited word.
C3_WordTitle ==
    strpc # "start" =>
        caseOut = {LowerOf(s), UpperOf(s), TitleByWords(s)}

\* C3 amended: generate_case_variations(s) is {lowercase(s), uppercase(s),
\* titlecase(s)} where titlecase capitalizes every cased character that does
\* not directly follow a cased character (so also a letter after '_', a
\* digit, an apostrophe or whitespace) and lowercases every cased character
\* that directly follows one; coinciding forms collapse to one element.
C3_CaseVariations ==
    strpc # "start" =>
        /\ caseOut = {LowerOf(s), UpperOf(s), TitleByLetterRuns(s)}
        /\ Cardinality(caseOut) \in 1..3

C3_Witness ==
    /\ strpc = "case"
    /\ s = <<"a", "_", "b">>
    /\ caseOut = { <<"a", "_", "b">>, <<"A", "_", "B">> }

\* the positions of str whose lowercased character is a key of LEET_MAP
LeetPositions(str) ==
    { i \in 1..Len(str) :
        \E k \in DOMAIN LEET_MAP : lower_char(str[i]) = <<k>> }

\* str with only position i replaced by the digit of its lowercased character
ReplacedAt(str, i) ==
    [j \in 1..Len(str) |->
        IF j = i THEN LEET_MAP[lower_char(str[i])[1]] ELSE str[j]]

\* C5: generate_leet_variations(s) returns exactly one variant for each
\* position of s whose lowercased character is a key of LEET_MAP, equal to s
\* with only that position replaced; no variant replaces two positions.
C5_OneVariantPerPosition ==
    strpc = "leet" =>
        /\ SeqRange(leetOut) = { ReplacedAt(s, i) : i \in LeetPositions(s) }
        /\ Len(leetOut) = Cardinality(LeetPositions(s))

(***************************************************************************)
(* Properties of load_custom_patterns (SpecLoad).                          *)
(***************************************************************************)
NonBlank(str) == { i \in 1..Len(str) : str[i] \notin Whitespace }

Min(S) == CHOOSE x \in S : \A y \in S : x <= y
Max(S) == CHOOSE x \in S : \A y \in S : x >= y

\* str without its leading and trailing whitespace
Trimmed(str) ==
    IF NonBlank(str) = {} THEN <<>>
    ELSE SubSeq(str, Min(NonBlank(str)), Max(NonBlank(str)))

\* the start positions of the occurrences of <USERNAME> in str
TokenStarts(str) ==
    { i \in 1..Len(str) :
        /\ i + Len(TOKEN) - 1 <= Len(str)
        /\ \A k \in 1..Len(TOKEN) : str[i + k - 1] = TOKEN[k] }

IsRule(str) == Trimmed(str) # <<>> /\ TokenStarts(str) # {}

ReadToEnd(f) == f.readable /\ f.failAt = NoFail

\* C7: for a file that is read to its end, load_custom_patterns returns, in
\* file order, exactly the whitespace-trimmed lines that are non-empty after
\* trimming and contain <USERNAME>; every other line is dropped, nothing is
\* raised, and a dropped line does not change which other lines are kept.
C7_KeptLines ==
    (loadpc = "done" /\ ReadToEnd(loadFile)) =>
        /\ ~loadOut.raised
        /\ loadOut.patterns =
             LET kept == SelectSeq(loadFile.lines, IsRule)
             IN  [i \in 1..Len(kept) |-> Trimmed(kept[i])]

C7_Witness ==
    /\ loadpc = "done"
    /\ ReadToEnd(loadFile)
    /\ loadFile.lines = << <<"x">>, <<" ", " ">> \o TOKEN \o <<"_">> \o TOKEN \o <<" ">> >>
    /\ loadOut.patterns = << TOKEN \o <<"_">> \o TOKEN >>

\* C8: on any I/O failure, when opening the file or while reading any of its
\* lines, no exception propagates and the loader returns an empty sequence.
C8_EmptyOnFailure ==
    (loadpc = "done" /\ ~ReadToEnd(loadFile)) =>
        /\ ~loadOut.raised
        /\ loadOut.patterns = <<>>

(***************************************************************************)
(* Properties of fuzz_usernames (Spec).                                    *)
(***************************************************************************)
NoRepeat(seq) == Cardinality(SeqRange(seq)) = Len(seq)

\* C1: the variant sequence fuzz_usernames returns for each nick contains no
\* string twice, whatever the nicks and the pattern file (repeated rules,
\* rules that reproduce a suffix candidate).
C1_NoDuplicates ==
    \A e \in 1..Len(results) : NoRepeat(results[e].value)

C1_Witness ==
    /\ pc = "done"
    /\ nicks = << <<"b">> >>
    /\ custom_patterns = << TOKEN \o <<"1">>, TOKEN \o <<"1">> >>
    /\ Len(results) = 1
    /\ \E i \in 1..Len(results[1].value) : results[1].value[i] = <<"b", "1">>

\* C2: for fixed nicks, pattern file content and calendar year, two calls of
\* fuzz_usernames, in the same run or in different runs of the program,
\* return for each nick the same sequence (same elements, same order).
C2_SameSequences ==
    (pc = "done" /\ callno = 2) => results = first

NumberStrings ==
    { <<"1">>, <<"2">>, <<"3">>, <<"4">>, <<"5">>, <<"6">>, <<"7">>, <<"8">>,
      <<"9">>, <<"1", "0">> }

WordStrings == { <<"d","e","v">>, <<"t","e","s","t">>, <<"a","d","m","i","n">> }

SeparatorStrings == { <<>>, <<".">>, <<"_">>, <<"-">> }

\* the six year strings of a call made in 2026
YearStrings2026 ==
    { <<"2","0","2","6">>, <<"2","0","2","5">>, <<"2","0","2","4">>,
      <<"2","0","2","3">>, <<"2","0","2","2">>, <<"2","0","2","1">> }

\* C4: for every nick, separator, n in 1..10 and word, nick+sep+n and
\* nick+sep+word are in the output for that nick; the suffix step builds its
\* candidates from the nick as given (never from a case variant), and with
\* no numeric suffix outside 1..10.
C4_SuffixCoverage ==
    (pc = "done" /\ now = 2026) =>
        \A e \in 1..Len(results) :
            LET nick == results[e].key
                out == SeqRange(results[e].value)
            IN  /\ \A sep \in SeparatorStrings, x \in NumberStrings \cup WordStrings :
                     nick \o sep \o x \in out
                /\ SeqRange(suffix_candidates(nick, year_strings(now))) =
                     { nick \o sep \o x :
                         sep \in SeparatorStrings,
                         x \in NumberStrings \cup WordStrings \cup YearStrings2026 }

C4_Witness ==
    /\ pc = "done"
    /\ nicks = << <<"a", "B">> >>
    /\ <<"a", "B", "_", "1", "0">> \in SeqRange(results[1].value)
    /\ <<"a", "B", "a", "d", "m", "i", "n">> \in SeqRange(results[1].value)
    /\ <<"a", "b", "_", "1", "0">> \notin SeqRange(results[1].value)
    /\ <<"a", "B", "0">> \notin SeqRange(results[1].value)
    /\ <<"a", "B", "1", "1">> \notin SeqRange(results[1].value)

\* rule with every occurrence of <USERNAME> replaced by nick, nothing else changed
Expanded(rule, nick) ==
    Flat([i \in 1..Len(rule) |->
            IF i \in TokenStarts(rule) THEN nick
            ELSE IF \E o \in TokenStarts(rule) : o < i /\ i < o + Len(TOKEN) THEN <<>>
            ELSE <<rule[i]>>])

IndexOf(seq, x) == Min({ i \in 1..Len(seq) : seq[i] = x })

\* C6: for each loaded rule the output for a nick contains the rule with
\* every occurrence of <USERNAME> replaced by the nick verbatim, and the
\* candidates of the rules that were not already present (from the other
\* families or from an earlier rule) appear in the order of the rules.
C6_CustomPatterns ==
    pc = "done" =>
        \A e \in 1..Len(results) :
            LET nick == results[e].key
                out == results[e].value
                cand == [r \in 1..Len(custom_patterns) |->
                            Expanded(custom_patterns[r], nick)]
                before == SeqRange(fuzz_nick(nick, year_strings(now), <<>>, hashseed))
                IsFresh(r) == /\ cand[r] \notin before
                              /\ \A q \in 1..(r - 1) : cand[q] # cand[r]
                fresh == SelectSeq([r \in 1..Len(cand) |-> r], IsFresh)
            IN  /\ \A r \in 1..Len(cand) : cand[r] \in SeqRange(out)
                /\ \A a, b \in 1..Len(fresh) :
                     a < b => IndexOf(out, cand[fresh[a]]) < IndexOf(out, cand[fresh[b]])
                /\ Len(out) = Cardinality(before) + Len(fresh)

C6_Witness ==
    /\ pc = "done"
    /\ nicks = << <<"a", "B">> >>
    /\ custom_patterns = << TOKEN \o <<"_">> \o TOKEN, TOKEN >>
    /\ LET out == results[1].value
       IN  /\ out[Len(out) - 1] = <<"a", "B", "_", "a", "B">>
           /\ out[Len(out)] = <<"a", "B">>

\* C9: with a path to a nonexistent pattern file fuzz_usernames raises
\* nothing and returns the mapping it returns with no pattern file at all.
C9_MissingFileAsNone ==
    (pc = "done" /\ config_path = "missing.txt") =>
        /\ ~raised
        /\ results = fuzz_usernames(nicks, None, Missing, now, hashseed)

C9_Witness ==
    /\ pc = "done"
    /\ config_path = "missing.txt"
    /\ file = Missing
    /\ Len(nicks) = 2
    /\ Len(results) = 2

Occurrences(seq, x) == Cardinality({ i \in 1..Len(seq) : seq[i] = x })

\* C10 as stated: a nick given twice yields two entries of the mapping, one
\* per occurrence, with identical, deduplicated variant sequences.
C10_TwoEntries ==
    (pc = "done" /\ ~raised) =>
        \A n \in SeqRange(nicks) :
            Occurrences(nicks, n) = 2 =>
                /\ Occurrences(dict_keys(results), n) = 2
                /\ \A i, j \in 1..Len(results) :
                     (results[i].key = n /\ results[j].key = n) =>
                        /\ results[i].value = results[j].value
                        /\ NoRepeat(results[i].value)

\* C10 amended: a nick given more than once yields one entry of the mapping
\* (a dict holds a key once: each later occurrence overwrites the entry with
\* an equal sequence); its variant sequence is the one a call with the nick
\* given once returns, and it is deduplicated.
C10_OneEntry ==
    (pc = "done" /\ ~raised) =>
        /\ Len(results) = Cardinality(SeqRange(nicks))
        /\ \A n \in SeqRange(nicks) :
            /\ Occurrences(dict_keys(results), n) = 1
            /\ LET once == fuzz_usernames(<<n>>, config_path, file, now, hashseed)
               IN  dict_get(results, n) = once[1].value
            /\ NoRepeat(dict_get(results, n))

C10_Witness ==
    /\ pc = "done"
    /\ nicks = << <<"b">>, <<"b">> >>
    /\ Len(results) = 1
    /\ results[1].key = <<"b">>

(***************************************************************************)
(* The returned mapping: its keys and their order.                         *)
(***************************************************************************)
\* position of the first occurrence of x in seq
FirstIndex(seq, x) == CHOOSE i \in 1..Len(seq) : seq[i] = x /\ \A j \in 1..(i - 1) : seq[j] # x

\* C11: the mapping returned by fuzz_usernames has an entry for every input
\* nick and for nothing else, no key twice, and the keys are in the order in
\* which the nicks (first) appear in the input.
C11_KeysInInputOrder ==
    pc = "done" =>
        LET keys == dict_keys(results)
        IN  /\ SeqRange(keys) = SeqRange(nicks)
            /\ NoRepeat(keys)
            /\ \A i, j \in 1..Len(keys) :
                   i < j => FirstIndex(nicks, keys[i]) < FirstIndex(nicks, keys[j])

\* a call with two different nicks has returned
C11_Witness ==
    /\ pc = "done"
    /\ nicks = << <<"b", "1">>, <<"b">> >>
    /\ dict_keys(results) = nicks

(***************************************************************************)
(* The dedup set of one nick is not used for another nick.                 *)
(***************************************************************************)
\* C12: dedup state is never shared between nicks: the sequence the call
\* returns for a nick n of its list is the sequence a call with the list [n]
\* alone returns for n (same pattern file, year and run), so a candidate
\* emitted for one nick is not suppressed for another nick that generates it.
C12_SeparateDedup ==
    pc = "done" =>
        \A i \in 1..Len(nicks) :
            LET alone == fuzz_usernames(<<nicks[i]>>, config_path, file, now, hashseed)
            IN  dict_get(results, nicks[i]) = dict_get(alone, nicks[i])

\* 'b1' is emitted for the nick 'b1' and, later in the call, as a suffix
\* candidate of the nick 'b'
C12_Witness ==
    /\ pc = "done"
    /\ nicks = << <<"b", "1">>, <<"b">> >>
    /\ <<"b", "1">> \in SeqRange(dict_get(results, <<"b", "1">>))
    /\ <<"b", "1">> \in SeqRange(dict_get(results, <<"b">>))

(***************************************************************************)
(* The nick itself in its own sequence.                                    *)
(***************************************************************************)
\* the strings the three transformations make of a nick
CaseForms(nick) == { LowerOf(nick), UpperOf(nick), TitleByLetterRuns(nick) }

LeetForms(nick) == leet_set(nick)

CustomForms(nick, rules) == { Expanded(rules[i], nick) : i \in 1..Len(rules) }

DecimalDigit(d) == <<"0", "1", "2", "3", "4", "5", "6", "7", "8", "9">>[d + 1]

\* a year of four digits in decimal
YearString(y) ==
    << DecimalDigit((y \div 1000) % 10), DecimalDigit((y \div 100) % 10),
       DecimalDigit((y \div 10) % 10), DecimalDigit(y % 10) >>

\* the suffix candidates of a nick in a call made in year y
SuffixForms(nick, y) ==
    { nick \o sep \o x :
        sep \in SeparatorStrings,
        x \in NumberStrings \cup { YearString(y - k) : k \in 0..5 } \cup WordStrings }

\* C14: in the sequence of every nick every case variant precedes every
\* suffix candidate, every suffix candidate precedes every leet variant, and
\* every leet variant precedes every custom candidate that no earlier family
\* emitted.
C14_FamilyOrder ==
    pc = "done" =>
        \A e \in 1..Len(results) :
            LET nick   == results[e].key
                out    == results[e].value
                case   == CaseForms(nick)
                suffix == SuffixForms(nick, now)
                leet   == LeetForms(nick)
                custom == CustomForms(nick, custom_patterns) \ (case \cup suffix \cup leet)
            IN  /\ \A c \in case, x \in suffix : IndexOf(out, c) < IndexOf(out, x)
                /\ \A x \in suffix, l \in leet : IndexOf(out, x) < IndexOf(out, l)
                /\ \A l \in leet, k \in custom : IndexOf(out, l) < IndexOf(out, k)

(***************************************************************************)
(* Order inside the suffix block.                                          *)
(***************************************************************************)
SeparatorOrder == << <<>>, <<".">>, <<"_">>, <<"-">> >>

\* the suffixes of one separator group in a call made in year y: 1..10
\* ascending, the years descending from y, then dev, test, admin
SuffixOrder(y) ==
    << <<"1">>, <<"2">>, <<"3">>, <<"4">>, <<"5">>, <<"6">>, <<"7">>, <<"8">>,
       <<"9">>, <<"1", "0">> >>
    \o << YearString(y), YearString(y - 1), YearString(y - 2), YearString(y - 3),
          YearString(y - 4), YearString(y - 5) >>
    \o << <<"d","e","v">>, <<"t","e","s","t">>, <<"a","d","m","i","n">> >>

\* the suffix block: separators outermost, in their declared order
SuffixBlock(nick, y) ==
    LET n == Len(SuffixOrder(y))
    IN  [p \in 1..(Len(SeparatorOrder) * n) |->
            nick \o SeparatorOrder[((p - 1) \div n) + 1] \o SuffixOrder(y)[((p - 1) % n) + 1]]

\* C15: the suffix block of a nick's sequence (what follows the case
\* variants) holds the candidates grouped by separator in the order "", ".",
\* "_", "-", and in each group the numbers 1..10 ascending, then the years
\* descending from the current year, then dev, test, admin.
C15_SuffixBlockOrder ==
    pc = "done" =>
        \A e \in 1..Len(results) :
            LET nick  == results[e].key
                out   == results[e].value
                nc    == Cardinality(CaseForms(nick))
                block == SuffixBlock(nick, now)
            IN  /\ Len(out) >= nc + Len(block)
                /\ SubSeq(out, nc + 1, nc + Len(block)) = block

\* the sequence of 'aB': three case variants, then 'aB1', ..., and 'aB.1'
\* right after 'aBadmin'
C15_Witness ==
    /\ pc = "done"
    /\ nicks = << <<"a", "B">> >>
    /\ LET out == results[1].value
       IN  /\ out[4] = <<"a", "B", "1">>
           /\ out[14] = <<"a", "B", "2", "0", "2", "6">>
           /\ out[22] = <<"a", "B", "a", "d", "m", "i", "n">>
           /\ out[23] = <<"a", "B", ".", "1">>

(***************************************************************************)
(* The year suffixes (SpecClock).                                          *)
(***************************************************************************)
\* C16: for a call made in year Y (the year read at its entry) the year
\* suffixes of every nick and separator are exactly Y, Y-1, ..., Y-5: each
\* nick+sep+year of the window is in the output, Y-6, Y+1 and the years
\* around them are not, and every nick of the call has the window of Y even
\* when the calendar year changes during the call.
C16_YearWindow ==
    pc = "done" =>
        \A e \in 1..Len(results), sep \in SeparatorStrings, y \in (now - 7)..(now + 2) :
            (results[e].key \o sep \o YearString(y) \in SeqRange(results[e].value))
                <=> (now - 5 <= y /\ y <= now)

\* a call of 2026 with two nicks that ended in 2027
C16_Witness ==
    /\ pc = "done"
    /\ now = 2026
    /\ clock = 2027
    /\ nicks = << <<"b">>, <<"a", "B">> >>
    /\ <<"b", "2", "0", "2", "1">> \in SeqRange(results[1].value)
    /\ <<"a", "B", "-", "2", "0", "2", "6">> \in SeqRange(results[2].value)
    /\ <<"a", "B", "2", "0", "2", "7">> \notin SeqRange(results[2].value)

(***************************************************************************)
(* Size of the result of generate_leet_variations (SpecStr).               *)
(***************************************************************************)
\* C17: generate_leet_variations(s) returns at most len(s) variants, every
\* variant has the length of s, and the number of variants is the number of
\* positions of s whose lowercased character is in the leet table.
C17_LeetSize ==
    strpc = "leet" =>
        /\ Len(leetOut) <= Len(s)
        /\ \A i \in 1..Len(leetOut) : Len(leetOut[i]) = Len(s)
        /\ Len(leetOut) = Cardinality(LeetPositions(s))

(***************************************************************************)
(* Loading of the pattern file by a call.                                  *)
(***************************************************************************)
\* C18: a call given a pattern source invokes the loader exactly once, before
\* any nick is processed and whatever the number of nicks, and the rules it
\* loaded are applied to every nick; a call given None or an empty path never
\* invokes the loader.
C18_LoadedOnce ==
    LET given == config_path \notin {None, ""}
    IN  /\ pc \in {"idle", "called"} => loads = 0 /\ idx = 0 /\ results = <<>>
        /\ pc \in {"loop", "done"} => loads = (IF given THEN 1 ELSE 0)
        /\ pc = "done" =>
               \A e \in 1..Len(results) :
                   CustomForms(results[e].key, custom_patterns)
                       \subseteq SeqRange(results[e].value)

\* a call with two nicks and a pattern file of two rules has returned
C18_Witness ==
    /\ pc = "done"
    /\ config_path = "patterns.txt"
    /\ loads = 1
    /\ Len(custom_patterns) = 2
    /\ nicks = << <<"b">>, <<"a", "B">> >>
    /\ <<"b", "_", "b">> \in SeqRange(results[1].value)
    /\ <<"a", "B", "_", "a", "B">> \in SeqRange(results[2].value)

(***************************************************************************)
(* What a call leaves unchanged (SpecSeq).                                 *)
(***************************************************************************)
\* what a step of a call may not change, and what the returning step returns
CallFrame ==
    /\ pc \in {"called", "loop"} => nicks' = nicks
    /\ pc = "loop" => custom_patterns' = custom_patterns
    /\ callno = 2 => first' = first
    /\ (pc = "loop" /\ pc' = "done") =>
           results' = fuzz_usernames(nicks, config_path, file, now, hashseed)

\* C19: no step of a call changes the nick list it was given or the rule
\* list it loaded; the mapping a call returns is the one a call with these
\* arguments returns when no call was made before it, and the mapping the
\* earlier call returned is not changed by the later call.
C19_NoStateKept == [][CallFrame]_vars

\* a second call with other arguments has returned
C19_Witness ==
    /\ pc = "done"
    /\ callno = 2
    /\ dict_keys(first) = << <<"b", "1">>, <<"b">> >>
    /\ dict_keys(results) = << <<"a", "B">> >>
    /\ config_path = "patterns.txt"
    /\ Len(custom_patterns) = 2

(***************************************************************************)
(* Two concurrent calls (SpecConc).                                        *)
(***************************************************************************)
\* C20: of two calls running concurrently on nick lists without a common
\* nick, with their steps interleaved in any order, each returns the
\* mapping it returns when it runs alone: what the other call has put into
\* its dedup set, variation list or result mapping has no effect on it.
C20_ConcurrentAsAlone ==
    \A t \in Threads :
        calls[t].pc = "done" =>
            calls[t].results = fuzz_usernames(calls[t].nicks, calls[t].config_path,
                                              file, calls[t].now, hashseed)

\* both calls have returned, and each emitted '_1': as '' + '_' + '1' for the
\* nick '' and as '_' + '' + '1' for the nick '_'
C20_Witness ==
    /\ calls[1].pc = "done"
    /\ calls[2].pc = "done"
    /\ calls[1].nicks = << <<>> >>
    /\ calls[2].nicks = << <<"b">>, <<"_">> >>
    /\ <<"_", "1">> \in SeqRange(dict_get(calls[1].results, <<>>))
    /\ <<"_", "1">> \in SeqRange(dict_get(calls[2].results, <<"_">>))

(***************************************************************************)
(* usufy.main with fuzzing requested (SpecMain).                           *)
(***************************************************************************)
\* the nicks handed to check() by process_nick_list
LookupKeys == { futures[k].nick : k \in 1..Len(futures) }

\* C21: when main was run with fuzzing requested and has returned, every
\* variant of the mapping made by fuzz_usernames has been used as a lookup
\* key by process_nick_list.
C21_VariantsLookedUp ==
    (mainpc = "returned" /\ args.fuzz # <<>>) =>
        /\ mainRet.kind = "mapping"
        /\ \A e \in 1..Len(mainRet.mapping) :
               SeqRange(mainRet.mapping[e].value) \subseteq LookupKeys

(***************************************************************************)
(* The families without custom patterns are disjoint.                      *)
(***************************************************************************)
\* C22: for every nick, with no custom patterns, the 76 suffix candidates
\* are pairwise distinct and distinct from every case and leet variant, no
\* leet variant is a case variant, and the sequence has |case variants| +
\* 76 + |leet variants| elements.
C22_NothingDropped ==
    (pc = "done" /\ custom_patterns = <<>>) =>
        \A e \in 1..Len(results) :
            LET nick   == results[e].key
                case   == CaseForms(nick)
                suffix == SuffixForms(nick, now)
                leet   == LeetForms(nick)
                n      == Len(SeparatorOrder) * Len(SuffixOrder(now))
            IN  /\ Cardinality(suffix) = n
                /\ suffix \cap (case \cup leet) = {}
                /\ leet \cap case = {}
                /\ Len(results[e].value) = Cardinality(case) + n + Cardinality(leet)

(***************************************************************************)
(* Properties of process_nick_list (SpecPnl).                              *)
(***************************************************************************)
\* the submitted calls whose check returned an entity
Found == { k \in 1..Len(futures) : futures[k].result.kind = "com.i3visio.Alias" }

\* the entity of the pair of the k-th submitted call
EntityOf(k) ==
    [kind |-> "com.i3visio.Alias", value |-> futures[k].nick,
     platform |-> futures[k].platform.platformName, uri |-> futures[k].result.uri]

\* C23: when process_nick_list returns, its list holds exactly one entity
\* for each submitted (platform, nick) pair whose check judged the account to
\* exist and nothing else, whatever the order in which the workers finished
\* and the number of threads; the value of every entity is an input nick.
C23_OneEntityPerFound ==
    pnlpc = "returned" =>
        /\ Len(pnl_results) = Cardinality(Found)
        /\ \A i \in 1..Len(pnl_results) :
               /\ \E k \in Found : pnl_results[i] = EntityOf(k)
               /\ pnl_results[i].value \in SeqRange(pnl_nicks)
        /\ \A k \in Found :
               Occurrences(pnl_results, EntityOf(k))
                   = Cardinality({ j \in Found : EntityOf(j) = EntityOf(k) })

\* two threads, four pairs: two entities, returned in the reverse of the
\* order of submission, and two pairs judged not to exist
C23_Witness ==
    /\ pnlpc = "returned"
    /\ nThreads = 2
    /\ Len(futures) = 4
    /\ Found = {1, 4}
    /\ Len(pnl_results) = 2
    /\ pnl_results[1] = EntityOf(4)
    /\ pnl_results[2] = EntityOf(1)
    /\ pnl_results[1].value = <<"a", "B">>
    /\ pnl_results[1].platform = "B"

\* the platform gives check() a non-empty usufy URL template
HasTemplate(platform) ==
    \/ platform.has_url /\ platform.url_usufy # <<>>
    \/ ~platform.has_url /\ platform.has_modes /\ platform.modes_url # <<>>

\* the template is one that url_template.format() rejects
BadFormat(platform) ==
    /\ platform.has_url
    /\ ~str_contains(platform.url_usufy, USUFY_TAG)
    /\ \E i \in 1..Len(platform.url_usufy) : platform.url_usufy[i] = "{"
    /\ ~str_contains(platform.url_usufy, PLACEHOLDER)

\* C24: an exception raised by the request of a pair is absorbed: the pair
\* yields no entity, the call still returns and its list holds the entity of
\* every other pair found; a request exception never leaves
\* process_nick_list.  A platform without usufy URL template makes check
\* raise ValueError, which leaves process_nick_list: the call never returns
\* a list.
C24_AbsorbedOrPropagated ==
    /\ \A k \in 1..Len(futures) :
           futures[k].resp.raises => futures[k].result = NoResult
    /\ pnlpc = "returned" =>
           /\ \A k \in Found : EntityOf(k) \in SeqRange(pnl_results)
           /\ \A k \in 1..Len(futures) : HasTemplate(futures[k].platform)
    /\ pnlpc \in {"raising", "raised"} =>
           \E k \in 1..Len(futures) :
               /\ futures[k].state = "collected"
               /\ ~HasTemplate(futures[k].platform) \/ BadFormat(futures[k].platform)
               /\ ~futures[k].resp.raises
    /\ \A k \in 1..Len(futures) :
           (futures[k].state \in {"done", "collected"}
                /\ ~HasTemplate(futures[k].platform))
               => futures[k].result.kind = "ValueError"

\* the request of the first pair raised and was absorbed, the second pair
\* was found, and the third pair, of a platform without template, raised
\* ValueError, which left process_nick_list
C24_Witness ==
    /\ pnlpc = "raised"
    /\ Len(futures) = 4
    /\ futures[1].resp.raises
    /\ futures[1].state = "collected"
    /\ futures[2].state = "collected"
    /\ Found = {2}
    /\ pnl_results = <<EntityOf(2)>>
    /\ futures[3].platform.platformName = "C"
    /\ futures[3].result.kind = "ValueError"

====
